---- MODULE Spec2Model ----
(***************************************************************************)
(* Model of src/src/http_ece.rs: HttpEce::new, HttpEce::encrypt,           *)
(* HttpEce::aes_gcm and front_pad.                                         *)
(*                                                                         *)
(* Byte strings are sequences over 0..255.  One call of encrypt is a       *)
(* sequence of steps, one per statement group of the function; pc is the   *)
(* position of the call and trace lists the steps the call has executed.   *)
(* The primitives of the ring crate (random source, ECDH, HKDF, AES-GCM)   *)
(* are modelled by small arithmetic stand-ins that keep what the code      *)
(* relies on: the lengths they demand and produce, the cases in which they *)
(* fail, that ECDH agrees on both sides, and that opening a sealed buffer  *)
(* with the same key and nonce returns the bytes that were sealed.         *)
(***************************************************************************)
EXTENDS Integers, Sequences, FiniteSets

VARIABLES coding, peer_public_key, peer_secret, recipient_key,
          content, pc, trace, failed,
          private_key, public_key, salt_bytes, shared_secret, payload,
          context, ikm, cek_info, content_encryption_key, nonce_info, nonce,
          sealing_key, hkdf_calls, result

vars == <<coding, peer_public_key, peer_secret, recipient_key,
          content, pc, trace, failed,
          private_key, public_key, salt_bytes, shared_secret, payload,
          context, ikm, cek_info, content_encryption_key, nonce_info, nonce,
          sealing_key, hkdf_calls, result>>

---------------------------------------------------------------------------
(* Bounds of the model. *)

\* ephemeral private scalars the random source can hand out: 1..MaxScalar
MaxScalar == 2
\* distinct salts the random source can hand out: 1..MaxSalt
MaxSalt == 2
\* plaintext lengths 0..MaxEdge and 3800-MaxEdge..3800 are explored
MaxEdge == 1
\* plaintext lengths 3801..3800+MaxOver are explored
MaxOver == 2

---------------------------------------------------------------------------
(* Constants of the program. *)

\* if content.len() > 3800
MaxContentLen == 3800
\* variant: the buffer has no room for the tag
PayloadLen_tagless == 2 + MaxContentLen
\* [0u8; 3818]
PayloadLen == 3818
\* let mut salt_bytes = [0u8; 16]
SaltLen == 16
\* let mut ikm = [0u8; 32]
IkmLen == 32
\* let mut content_encryption_key = [0u8; 16]
CekLen == 16
\* let mut nonce = [0u8; 12]
NonceLen == 12
\* aead::seal_in_place(.., 16)
SealSuffix == 16
\* output.len() - 2 - 16 in front_pad
PadHeaderLen == 2
FrontPadTagLen == 16
\* private_key.public_key_len() of ECDH_P256: an uncompressed point
PublicKeyLen == 65
\* key, nonce and tag lengths of aead::AES_128_GCM
AeadKeyLen == 16
AeadNonceLen == 12
AeadTagLen == 16

Byte == 0..255

Zeros(n) == [i \in 1..n |-> 0]

\* "P-256\0"
P256Label == <<80, 45, 50, 53, 54, 0>>
\* "Content-Encoding: auth\0"
AuthInfo == <<67, 111, 110, 116, 101, 110, 116, 45, 69, 110, 99, 111, 100,
              105, 110, 103, 58, 32, 97, 117, 116, 104, 0>>
\* "Content-Encoding: aesgcm\0"
CekLabel == <<67, 111, 110, 116, 101, 110, 116, 45, 69, 110, 99, 111, 100,
              105, 110, 103, 58, 32, 97, 101, 115, 103, 99, 109, 0>>
\* "Content-Encoding: nonce\0"
NonceLabel == <<67, 111, 110, 116, 101, 110, 116, 45, 69, 110, 99, 111, 100,
                105, 110, 103, 58, 32, 110, 111, 110, 99, 101, 0>>
\* "".as_bytes()
EmptyAad == <<>>

---------------------------------------------------------------------------
(* Stand-ins for the primitives of the ring crate. *)

\* modulus of the digest stand-in
HashMod == 65521
\* the ECDH stand-in works in the multiplicative group modulo FieldPrime
FieldPrime == 251
Generator == 6

RECURSIVE WSum(_, _, _)
\* position-weighted checksum of s[lo..hi]
WSum(s, lo, hi) ==
    IF lo > hi THEN 0
    ELSE IF lo = hi THEN ((s[lo] + 1) * ((lo * lo + 3 * lo + 7) % HashMod)) % HashMod
    ELSE LET mid == (lo + hi) \div 2
         IN  (WSum(s, lo, mid) + WSum(s, mid + 1, hi)) % HashMod

\* digest stand-in: absorbs the byte string s into the state seed
Mix(seed, s) == (seed * 257 + WSum(s, 1, Len(s)) + Len(s) * 8191 + 1) % HashMod

\* hkdf::extract_and_expand(salt, secret, info, out) with out.len() = len;
\* salt is the byte string the hmac::SigningKey was made from
extract_and_expand(salt, secret, info, len) ==
    LET prk == Mix(Mix(11, salt), secret)
        okm == Mix(prk, info)
    IN  [j \in 1..len |-> ((okm + j * 8191) % HashMod) % 256]

RECURSIVE Pow(_, _)
Pow(b, e) == IF e = 0 THEN 1 ELSE (b * Pow(b, e - 1)) % FieldPrime

\* a field element as 32 big-endian bytes
Be32(v) == [i \in 1..32 |-> IF i = 32 THEN v % 256
                            ELSE IF i = 31 THEN (v \div 256) % 256
                            ELSE 0]

\* uncompressed encoding of the point with x-coordinate x: 0x04 || X || Y
EncodePoint(x) == <<4>> \o Be32(x) \o Be32((x * x) % FieldPrime)

\* private_key.compute_public_key: the public point of the scalar sk
PublicKeyOf(sk) == EncodePoint(Pow(Generator, sk))

PointX(bytes) == bytes[33] + 256 * bytes[32]
PointY(bytes) == bytes[65] + 256 * bytes[64]

\* variant: only the length and the format byte are checked
ValidPublicKey_nocurve(bytes) ==
    /\ Len(bytes) = PublicKeyLen
    /\ bytes[1] = 4

\* the peer key parses as an uncompressed point on the curve
ValidPublicKey(bytes) ==
    /\ Len(bytes) = PublicKeyLen
    /\ bytes[1] = 4
    /\ \A i \in 2..31 : bytes[i] = 0
    /\ \A i \in 34..63 : bytes[i] = 0
    /\ PointX(bytes) \in 1..(FieldPrime - 1)
    /\ PointY(bytes) = (PointX(bytes) * PointX(bytes)) % FieldPrime

\* the ECDH computation inside agreement::agree_ephemeral: the shared secret
\* is the x-coordinate of the product, or the agreement fails on a bad peer key
ecdh(sk, peer) ==
    IF ValidPublicKey(peer)
    THEN [ok |-> TRUE, shared |-> Be32(Pow(PointX(peer), sk))]
    ELSE [ok |-> FALSE, shared |-> <<>>]

\* aead::SealingKey::new(&aead::AES_128_GCM, key_bytes)
SealingKeyNew(key_bytes) ==
    [ok |-> Len(key_bytes) = AeadKeyLen, key |-> key_bytes]

KeystreamSeed(key, nonce_bytes) == Mix(Mix(5, key), nonce_bytes)
KeystreamByte(seed, i) == ((seed + i * 131) % HashMod) % 256
TagOf(seed, ad, ct) ==
    LET t == Mix(Mix(seed, ad), ct)
    IN  [j \in 1..AeadTagLen |-> ((t + j * 977) % HashMod) % 256]

\* aead::seal_in_place(key, nonce, ad, in_out, out_suffix_capacity):
\* encrypts in_out[..len - capacity] in place and writes the tag after it
seal_in_place(key, nonce_bytes, ad, in_out, out_suffix_capacity) ==
    IF \/ out_suffix_capacity < AeadTagLen
       \/ Len(in_out) < out_suffix_capacity
       \/ Len(nonce_bytes) # AeadNonceLen
    THEN [ok |-> FALSE, in_out |-> in_out]
    ELSE LET n    == Len(in_out) - out_suffix_capacity
             seed == KeystreamSeed(key, nonce_bytes)
             ct   == [i \in 1..n |-> (in_out[i] + KeystreamByte(seed, i)) % 256]
             tag  == TagOf(seed, ad, ct)
         IN  [ok |-> TRUE,
              in_out |-> [i \in 1..Len(in_out) |->
                             IF i <= n THEN ct[i]
                             ELSE IF i <= n + AeadTagLen THEN tag[i - n]
                             ELSE in_out[i]]]

---------------------------------------------------------------------------
(* Inputs. *)

ContentCoding == {"AesGcm", "Aes128Gcm"}

\* auth secrets handed to new
Secret(k) == [i \in 1..16 |-> (k * 29 + i) % 256]

\* private scalars of the recipients whose public key is handed to new;
\* the recipient with scalar r has auth secret Secret(r)
RecipientScalars == {1, 3}

\* salts the random source writes into salt_bytes
Salt(s) == [i \in 1..SaltLen |-> (s * 17 + i * 3) % 256]

\* peer keys that are not a point: truncated, off the curve, empty
InvalidPublicKeys ==
    { SubSeq(PublicKeyOf(1), 1, PublicKeyLen - 1),
      [PublicKeyOf(1) EXCEPT ![PublicKeyLen] = (@ + 1) % 256],
      <<>> }

\* b"hello"
Hello == <<104, 101, 108, 108, 111>>

Fill(n, f) == [i \in 1..n |-> (f * (i * 7 + 1)) % 256]

ContentLens ==
    (0..MaxEdge) \cup {5}
    \cup ((MaxContentLen - MaxEdge)..MaxContentLen)
    \cup ((MaxContentLen + 1)..(MaxContentLen + MaxOver))

\* f = 0 is the all-zero plaintext
Contents == {Hello} \cup { Fill(n, f) : n \in ContentLens, f \in {0, 1} }

---------------------------------------------------------------------------
(* Results of encrypt. *)

NoResult == [kind |-> "None"]
Err(e) == [kind |-> "Err", error |-> e]
\* WebPushPayload { content, public_key, salt }
WebPushPayload(c, pk, s) ==
    [kind |-> "Ok", payload |-> [content |-> c, public_key |-> pk, salt |-> s]]

\* the `?` operator turns a ring::error::Unspecified into a WebPushError
FromUnspecified == "Unspecified"

---------------------------------------------------------------------------
(* front_pad and the context of aes_gcm. *)

\* variant: the padding length is written little-endian
front_pad_le(p, output, overflow_checks) ==
    LET payload_len == Len(p)
        out_len == Len(output)
        d     == out_len - PadHeaderLen - FrontPadTagLen - payload_len
        under == (out_len < PadHeaderLen + FrontPadTagLen) \/ (d < 0)
        oob   == \/ out_len < 2
                 \/ payload_len > 0 /\ (d + 2 < 0 \/ d + payload_len + 1 > out_len - 1)
    IN  IF (overflow_checks /\ under) \/ oob
        THEN [panic |-> TRUE, output |-> output]
        ELSE [panic |-> FALSE,
              output |-> [j \in 1..out_len |->
                            IF j - 3 - d >= 0 /\ j - 3 - d < payload_len THEN p[j - 2 - d]
                            ELSE IF j = 1 THEN d % 256
                            ELSE IF j = 2 THEN (d \div 256) % 256
                            ELSE output[j]]]

\* variant: the content is copied one byte too early (padding_size + i + 1)
front_pad_shift(p, output, overflow_checks) ==
    LET payload_len == Len(p)
        out_len == Len(output)
        d     == out_len - PadHeaderLen - FrontPadTagLen - payload_len
        under == (out_len < PadHeaderLen + FrontPadTagLen) \/ (d < 0)
        oob   == \/ out_len < 2
                 \/ payload_len > 0 /\ (d + 1 < 0 \/ d + payload_len > out_len - 1)
    IN  IF (overflow_checks /\ under) \/ oob
        THEN [panic |-> TRUE, output |-> output]
        ELSE [panic |-> FALSE,
              output |-> [j \in 1..out_len |->
                            IF j - 2 - d >= 0 /\ j - 2 - d < payload_len THEN p[j - 1 - d]
                            ELSE IF j = 1 THEN (d \div 256) % 256
                            ELSE IF j = 2 THEN d % 256
                            ELSE output[j]]]

\* front_pad(payload, output).  d is max_payload - payload.len() before it
\* is reduced to usize.  With overflow checks a negative d panics; without
\* them d wraps, the two header bytes are its low 16 bits, the loop writes
\* payload[i] to index d + i + 2 (wrapped), and an index outside the buffer
\* panics: the loop's first index is d + 2 and its last is d + payload_len + 1.
front_pad(p, output, overflow_checks) ==
    LET payload_len == Len(p)
        out_len == Len(output)
        d     == out_len - PadHeaderLen - FrontPadTagLen - payload_len
        under == (out_len < PadHeaderLen + FrontPadTagLen) \/ (d < 0)
        oob   == \/ out_len < 2
                 \/ payload_len > 0 /\ (d + 2 < 0 \/ d + payload_len + 1 > out_len - 1)
    IN  IF (overflow_checks /\ under) \/ oob
        THEN [panic |-> TRUE, output |-> output]
        ELSE [panic |-> FALSE,
              output |-> [j \in 1..out_len |->
                            IF j - 3 - d >= 0 /\ j - 3 - d < payload_len THEN p[j - 2 - d]
                            ELSE IF j = 1 THEN (d \div 256) % 256
                            ELSE IF j = 2 THEN d % 256
                            ELSE output[j]]]

\* variant: the two public keys are written in the other order
Context_swapped(peer, as_public_key) ==
    P256Label
    \o <<(Len(as_public_key) \div 256) % 256, Len(as_public_key) % 256>>
    \o as_public_key
    \o <<(Len(peer) \div 256) % 256, Len(peer) % 256>> \o peer

\* lines 66-73 of aes_gcm
Context(peer, as_public_key) ==
    P256Label
    \o <<(Len(peer) \div 256) % 256, Len(peer) % 256>> \o peer
    \o <<(Len(as_public_key) \div 256) % 256, Len(as_public_key) % 256>>
    \o as_public_key

\* one call of hkdf::extract_and_expand: its output, and its arguments as
\* hkdf_calls records them
Hkdf(salt, secret, info, len) ==
    [call |-> [salt |-> salt, secret |-> secret, info |-> info, len |-> len],
     out  |-> extract_and_expand(salt, secret, info, len)]

---------------------------------------------------------------------------
(* HttpEce::new and the steps of HttpEce::encrypt. *)

\* HttpEce::new stores its arguments.  recipient_key is the private scalar
\* the recipient holds for peer_public_key (0: the key given is no point).
Init ==
    /\ coding \in ContentCoding
    /\ \/ /\ recipient_key \in RecipientScalars
          /\ peer_public_key = PublicKeyOf(recipient_key)
       \/ /\ recipient_key = 0
          /\ peer_public_key \in InvalidPublicKeys
    /\ peer_secret = Secret(recipient_key)
    /\ content = <<>>
    /\ pc = "idle"
    /\ trace = <<>>
    /\ failed = "none"
    /\ private_key = 0
    /\ public_key = <<>>
    /\ salt_bytes = <<>>
    /\ shared_secret = <<>>
    /\ payload = <<>>
    /\ context = <<>>
    /\ ikm = <<>>
    /\ cek_info = <<>>
    /\ content_encryption_key = <<>>
    /\ nonce_info = <<>>
    /\ nonce = <<>>
    /\ sealing_key = <<>>
    /\ hkdf_calls = <<>>
    /\ result = NoResult

SelfUnchanged == UNCHANGED <<coding, peer_public_key, peer_secret, recipient_key>>

AesGcmLocalsUnchanged ==
    UNCHANGED <<context, ikm, cek_info, content_encryption_key, nonce_info,
                nonce, sealing_key>>

\* aes_gcm returns: its locals go out of scope
DropAesGcmLocals ==
    /\ context' = <<>>
    /\ ikm' = <<>>
    /\ cek_info' = <<>>
    /\ content_encryption_key' = <<>>
    /\ nonce_info' = <<>>
    /\ nonce' = <<>>
    /\ sealing_key' = <<>>

\* encrypt returns res to its caller: every local goes out of scope
Return(res) ==
    /\ pc' = "returned"
    /\ result' = res
    /\ private_key' = 0
    /\ public_key' = <<>>
    /\ salt_bytes' = <<>>
    /\ shared_secret' = <<>>
    /\ payload' = <<>>
    /\ DropAesGcmLocals

\* the call executes the step name
Step(name) == trace' = Append(trace, name)

\* a step that raises no error
NoError == UNCHANGED failed

\* the step name raised the error e: `?` and the closure's Err return it
Raise(name, e) == failed' = name /\ Return(Err(e))

\* a caller invokes encrypt(content) on the object
Encrypt ==
    /\ pc \in {"idle", "returned"}
    /\ content' \in Contents
    /\ pc' = "check_len"
    /\ trace' = <<>>
    /\ failed' = "none"
    /\ hkdf_calls' = <<>>
    /\ result' = NoResult
    /\ SelfUnchanged /\ AesGcmLocalsUnchanged
    /\ UNCHANGED <<private_key, public_key, salt_bytes, shared_secret, payload>>

\* variant: the limit is off by one
ContentTooLong_off(c) == Len(c) > MaxContentLen + 1

\* line 29
ContentTooLong(c) == Len(c) > MaxContentLen

CheckLength ==
    /\ pc = "check_len"
    /\ Step("check_len")
    /\ IF ContentTooLong(content)
       THEN Raise("check_len", "ContentTooLong")
       ELSE /\ pc' = "generate"
            /\ NoError
            /\ AesGcmLocalsUnchanged
            /\ UNCHANGED <<private_key, public_key, salt_bytes, shared_secret,
                           payload, result>>
    /\ SelfUnchanged /\ UNCHANGED <<content, hkdf_calls>>

\* lines 31-36: the random source fails (r = 0) or yields the scalar r
GenerateKey ==
    /\ pc = "generate"
    /\ Step("generate")
    /\ \E r \in 0..MaxScalar :
         IF r = 0
         THEN Raise("generate", FromUnspecified)
         ELSE /\ private_key' = r
              /\ NoError
              /\ public_key' = Zeros(PublicKeyLen)
              /\ salt_bytes' = Zeros(SaltLen)
              /\ pc' = "fill"
              /\ AesGcmLocalsUnchanged
              /\ UNCHANGED <<shared_secret, payload, result>>
    /\ SelfUnchanged /\ UNCHANGED <<content, hkdf_calls>>

\* variant: the failure of the random source is ignored and the call goes
\* on with the zeroed salt
FillSalt_swallow ==
    /\ pc = "fill"
    /\ Step("fill")
    /\ \E s \in 0..MaxSalt :
         /\ salt_bytes' = IF s = 0 THEN salt_bytes ELSE Salt(s)
         /\ failed' = IF s = 0 THEN "fill" ELSE failed
         /\ pc' = "compute_public_key"
         /\ AesGcmLocalsUnchanged
         /\ UNCHANGED <<private_key, public_key, shared_secret, payload, result>>
    /\ SelfUnchanged /\ UNCHANGED <<content, hkdf_calls>>

\* variant: a failed fill is tried once more
FillSalt_retry ==
    /\ pc = "fill"
    /\ Step("fill")
    /\ \E s \in 0..MaxSalt :
         IF s = 0 /\ Len(trace) < 3
         THEN /\ pc' = "fill"
              /\ NoError
              /\ AesGcmLocalsUnchanged
              /\ UNCHANGED <<private_key, public_key, salt_bytes, shared_secret,
                             payload, result>>
         ELSE IF s = 0
         THEN Raise("fill", FromUnspecified)
         ELSE /\ salt_bytes' = Salt(s)
              /\ NoError
              /\ pc' = "compute_public_key"
              /\ AesGcmLocalsUnchanged
              /\ UNCHANGED <<private_key, public_key, shared_secret, payload, result>>
    /\ SelfUnchanged /\ UNCHANGED <<content, hkdf_calls>>

\* line 38: the random source fails (s = 0) or fills salt_bytes
FillSalt ==
    /\ pc = "fill"
    /\ Step("fill")
    /\ \E s \in 0..MaxSalt :
         IF s = 0
         THEN Raise("fill", FromUnspecified)
         ELSE /\ salt_bytes' = Salt(s)
              /\ NoError
              /\ pc' = "compute_public_key"
              /\ AesGcmLocalsUnchanged
              /\ UNCHANGED <<private_key, public_key, shared_secret, payload, result>>
    /\ SelfUnchanged /\ UNCHANGED <<content, hkdf_calls>>

\* line 39: fails when the output slice has not the length of a public key
ComputePublicKey ==
    /\ pc = "compute_public_key"
    /\ Step("compute_public_key")
    /\ IF Len(public_key) # PublicKeyLen
       THEN Raise("compute_public_key", FromUnspecified)
       ELSE /\ public_key' = PublicKeyOf(private_key)
            /\ NoError
            /\ pc' = "agree"
            /\ AesGcmLocalsUnchanged
            /\ UNCHANGED <<private_key, salt_bytes, shared_secret, payload, result>>
    /\ SelfUnchanged /\ UNCHANGED <<content, hkdf_calls>>

\* line 41: agree_ephemeral consumes the private key, parses the peer key
\* and either returns the error value or runs the closure on the secret
Agree ==
    /\ pc = "agree"
    /\ Step("agree")
    /\ LET r == ecdh(private_key, peer_public_key)
       IN  IF ~r.ok
           THEN Raise("agree", "Unspecified")
           ELSE /\ shared_secret' = r.shared
                /\ NoError
                /\ private_key' = 0
                /\ pc' = "match_coding"
                /\ AesGcmLocalsUnchanged
                /\ UNCHANGED <<public_key, salt_bytes, payload, result>>
    /\ SelfUnchanged /\ UNCHANGED <<content, hkdf_calls>>

\* lines 42-44 and 55-56: the match on self.coding inside the closure
MatchCoding ==
    /\ pc = "match_coding"
    /\ Step("match_coding")
    /\ IF coding = "AesGcm"
       THEN /\ payload' = Zeros(PayloadLen)
            /\ pc' = "front_pad"
            /\ NoError
            /\ AesGcmLocalsUnchanged
            /\ UNCHANGED <<private_key, public_key, salt_bytes, shared_secret, result>>
       ELSE Raise("match_coding", "NotImplemented")
    /\ SelfUnchanged /\ UNCHANGED <<content, hkdf_calls>>

\* line 45
FrontPad ==
    /\ pc = "front_pad"
    /\ Step("front_pad")
    /\ \E overflow_checks \in BOOLEAN :
         LET r == front_pad(content, payload, overflow_checks)
         IN  /\ pc' = IF r.panic THEN "panicked" ELSE "aes_gcm"
             /\ payload' = r.output
    /\ NoError
    /\ AesGcmLocalsUnchanged
    /\ SelfUnchanged
    /\ UNCHANGED <<content, hkdf_calls, private_key, public_key, salt_bytes,
                   shared_secret, result>>

\* lines 47 and 63-90: aes_gcm builds the context and derives ikm, the
\* content encryption key and the nonce
AesGcmDerive ==
    /\ pc = "aes_gcm"
    /\ Step("derive")
    /\ LET ctx == Context(peer_public_key, public_key)
           h1  == Hkdf(peer_secret, shared_secret, AuthInfo, IkmLen)
           ci  == CekLabel \o ctx
           h2  == Hkdf(salt_bytes, h1.out, ci, CekLen)
           ni  == NonceLabel \o ctx
           h3  == Hkdf(salt_bytes, h1.out, ni, NonceLen)
       IN  /\ context' = ctx
           /\ ikm' = h1.out
           /\ cek_info' = ci
           /\ content_encryption_key' = h2.out
           /\ nonce_info' = ni
           /\ nonce' = h3.out
           /\ hkdf_calls' = <<h1.call, h2.call, h3.call>>
    /\ pc' = "sealing_key"
    /\ NoError
    /\ SelfUnchanged
    /\ UNCHANGED <<content, private_key, public_key, salt_bytes, shared_secret,
                   payload, sealing_key, result>>

\* line 92
SealingKey ==
    /\ pc = "sealing_key"
    /\ Step("sealing_key")
    /\ LET r == SealingKeyNew(content_encryption_key)
       IN  IF ~r.ok
           THEN Raise("sealing_key", FromUnspecified)
           ELSE /\ sealing_key' = r.key
                /\ NoError
                /\ pc' = "seal"
                /\ UNCHANGED <<context, ikm, cek_info, content_encryption_key,
                               nonce_info, nonce>>
                /\ UNCHANGED <<private_key, public_key, salt_bytes, shared_secret,
                               payload, result>>
    /\ SelfUnchanged /\ UNCHANGED <<content, hkdf_calls>>

\* lines 93-95: seal in place, then aes_gcm returns Ok(())
Seal ==
    /\ pc = "seal"
    /\ Step("seal")
    /\ LET r == seal_in_place(sealing_key, nonce, EmptyAad, payload, SealSuffix)
       IN  IF ~r.ok
           THEN Raise("seal", FromUnspecified)
           ELSE /\ payload' = r.in_out
                /\ NoError
                /\ pc' = "assemble"
                /\ DropAesGcmLocals
                /\ UNCHANGED <<private_key, public_key, salt_bytes, shared_secret,
                               result>>
    /\ SelfUnchanged /\ UNCHANGED <<content, hkdf_calls>>

\* lines 49-53
Assemble ==
    /\ pc = "assemble"
    /\ Step("assemble")
    /\ Return(WebPushPayload(payload, public_key, salt_bytes))
    /\ NoError
    /\ SelfUnchanged /\ UNCHANGED <<content, hkdf_calls>>

Next ==
    \/ Encrypt
    \/ CheckLength
    \/ GenerateKey
    \/ FillSalt
    \/ ComputePublicKey
    \/ Agree
    \/ MatchCoding
    \/ FrontPad
    \/ AesGcmDerive
    \/ SealingKey
    \/ Seal
    \/ Assemble

Spec == Init /\ [][Next]_vars

TypeOK ==
    /\ pc \in {"idle", "check_len", "generate", "fill", "compute_public_key",
               "agree", "match_coding", "front_pad", "aes_gcm", "sealing_key",
               "seal", "assemble", "returned", "panicked"}
    /\ Len(content) <= MaxContentLen + MaxOver

---------------------------------------------------------------------------
(* The recipient's side of the exchange: the decryption that a compliant   *)
(* recipient performs on a payload.                                        *)

\* the inverse of seal_in_place: checks the tag, then removes the keystream
open_in_place(key, nonce_bytes, ad, in_out) ==
    IF Len(in_out) < AeadTagLen \/ Len(nonce_bytes) # AeadNonceLen \/ Len(key) # AeadKeyLen
    THEN [ok |-> FALSE, plaintext |-> <<>>]
    ELSE LET n    == Len(in_out) - AeadTagLen
             seed == KeystreamSeed(key, nonce_bytes)
             ct   == [i \in 1..n |-> in_out[i]]
             tag  == TagOf(seed, ad, ct)
         IN  IF \E j \in 1..AeadTagLen : in_out[n + j] # tag[j]
             THEN [ok |-> FALSE, plaintext |-> <<>>]
             ELSE [ok |-> TRUE,
                   plaintext |-> [i \in 1..n |-> (in_out[i] - KeystreamByte(seed, i)) % 256]]

\* reads the 2-byte big-endian padding length and skips that many bytes
StripPadding(framed) ==
    IF Len(framed) < 2 \/ 2 + framed[1] * 256 + framed[2] > Len(framed)
    THEN [ok |-> FALSE, plaintext |-> <<>>]
    ELSE LET pad == framed[1] * 256 + framed[2]
         IN  [ok |-> TRUE,
              plaintext |-> [i \in 1..(Len(framed) - 2 - pad) |-> framed[2 + pad + i]]]

\* the recipient holds the private scalar rsk and the auth secret auth, and
\* receives the sender's public key, the salt and the content
Decrypt(rsk, auth, sender_public_key, salt, body) ==
    LET own  == PublicKeyOf(rsk)
        dh   == ecdh(rsk, sender_public_key)
        ctx  == <<80, 45, 50, 53, 54, 0>>
                \o <<0, 65>> \o own \o <<0, 65>> \o sender_public_key
        prk  == extract_and_expand(auth, dh.shared,
                    <<67, 111, 110, 116, 101, 110, 116, 45, 69, 110, 99, 111,
                      100, 105, 110, 103, 58, 32, 97, 117, 116, 104, 0>>, 32)
        key  == extract_and_expand(salt, prk,
                    <<67, 111, 110, 116, 101, 110, 116, 45, 69, 110, 99, 111,
                      100, 105, 110, 103, 58, 32, 97, 101, 115, 103, 99, 109, 0>>
                    \o ctx, 16)
        iv   == extract_and_expand(salt, prk,
                    <<67, 111, 110, 116, 101, 110, 116, 45, 69, 110, 99, 111,
                      100, 105, 110, 103, 58, 32, 110, 111, 110, 99, 101, 0>>
                    \o ctx, 12)
        opened == open_in_place(key, iv, <<>>, body)
    IN  IF ~dh.ok \/ ~opened.ok
        THEN [ok |-> FALSE, plaintext |-> <<>>]
        ELSE StripPadding(opened.plaintext)

---------------------------------------------------------------------------
(* Properties. *)

Returned == pc = "returned"
Succeeded == Returned /\ result.kind = "Ok"
Ran(name) == \E i \in DOMAIN trace : trace[i] = name
Once(name) == Cardinality({i \in DOMAIN trace : trace[i] = name}) = 1
Pos(name) == CHOOSE i \in DOMAIN trace : trace[i] = name

\* C1: a successful encrypt call returns a content of exactly 3818 bytes
\* (2 + 3800 + 16), whatever the length 0..3800 of the plaintext.
C1_FixedLength ==
    Succeeded =>
        /\ Len(content) \in 0..3800
        /\ coding = "AesGcm"
        /\ Len(result.payload.content) = 3818

C1_Witness == Succeeded /\ Len(content) = 3800

\* C2: a plaintext longer than 3800 bytes ends the call with ContentTooLong
\* right after the length check: no key is generated, no salt drawn, no
\* agreement performed, no key derived and front_pad is never attempted.
C2_TooLong ==
    (Len(content) > 3800 /\ pc # "check_len") =>
        /\ Returned
        /\ result = [kind |-> "Err", error |-> "ContentTooLong"]
        /\ trace = <<"check_len">>
        /\ ~Ran("generate") /\ ~Ran("fill") /\ ~Ran("agree") /\ ~Ran("front_pad")
        /\ hkdf_calls = <<>>

C2_Witness == Returned /\ Len(content) = 3801 /\ coding = "Aes128Gcm" /\ result.kind = "Err"

\* C3 (as claimed, on the calls whose plaintext passes the length check and
\* whose random source works): every call that requests Aes128Gcm ends with
\* NotImplemented, whatever the recipient public key and the auth secret.
C3_AlwaysNotImplemented ==
    (/\ coding = "Aes128Gcm" /\ Returned
     /\ Len(content) <= 3800
     /\ failed \notin {"generate", "fill", "compute_public_key"}) =>
        result = [kind |-> "Err", error |-> "NotImplemented"]

\* C4 (as claimed): when a call that requests Aes128Gcm returns
\* NotImplemented, no ephemeral key has been generated, no salt drawn, no
\* agreement performed and no key material derived.
C4_NoKeyMaterialTouched ==
    (/\ coding = "Aes128Gcm" /\ Returned
     /\ result = [kind |-> "Err", error |-> "NotImplemented"]) =>
        ~Ran("generate") /\ ~Ran("fill") /\ ~Ran("agree") /\ ~Ran("derive")

\* C5: with a plaintext of at most 3800 bytes and an invalid recipient public
\* key the call never panics, never reaches the closure (coding match,
\* framing, key derivation, sealing) and returns the Unspecified error.
C5_InvalidKey ==
    (peer_public_key \in InvalidPublicKeys /\ Len(content) <= 3800) =>
        /\ pc # "panicked"
        /\ ~Ran("match_coding") /\ ~Ran("front_pad") /\ ~Ran("derive")
        /\ ~Ran("sealing_key") /\ ~Ran("seal") /\ ~Ran("assemble")
        /\ Returned => result = [kind |-> "Err", error |-> "Unspecified"]

C5_Witness ==
    /\ Returned /\ peer_public_key \in InvalidPublicKeys
    /\ trace = <<"check_len", "generate", "fill", "compute_public_key", "agree">>
    /\ result = [kind |-> "Err", error |-> "Unspecified"]

\* C6: the recipient's decryption of a returned payload, with the recipient's
\* private key, the emitted public key and salt and the same auth secret,
\* followed by stripping the padding, gives back the plaintext.
C6_RoundTrip ==
    Succeeded =>
        LET r == Decrypt(recipient_key, peer_secret, result.payload.public_key,
                         result.payload.salt, result.payload.content)
        IN  r.ok /\ Len(r.plaintext) = Len(content)
                 /\ \A i \in 1..Len(content) : r.plaintext[i] = content[i]

C6_Witness == Succeeded /\ Len(content) = 3799 /\ content[1] # 0

\* C7: after front_pad the buffer holds 3800 - n big-endian in its first two
\* bytes, then 3800 - n zero bytes, then the content, then 16 zero bytes.
C7_Layout ==
    pc = "aes_gcm" =>
        LET n == Len(content)
        IN  /\ n <= 3800
            /\ Len(payload) = 3818
            /\ payload[1] \in Byte /\ payload[2] \in Byte
            /\ payload[1] * 256 + payload[2] = 3800 - n
            /\ \A i \in 3..(2 + 3800 - n) : payload[i] = 0
            /\ \A i \in 1..n : payload[2 + 3800 - n + i] = content[i]
            /\ \A i \in 3803..3818 : payload[i] = 0

C7_Witness ==
    /\ pc = "aes_gcm" /\ content = <<104, 101, 108, 108, 111>>
    /\ payload[1] * 256 + payload[2] = 3795
    /\ payload[3798] = 104 /\ payload[3802] = 111

\* the steps of a call in the order of the code
AllSteps ==
    <<"check_len", "generate", "fill", "compute_public_key", "agree",
      "match_coding", "front_pad", "derive", "sealing_key", "seal", "assemble">>

\* C8: a call ends either with a complete payload (3818-byte sealed content,
\* ephemeral public key, 16-byte salt) after every step has run, or with a
\* typed failure that carries no payload; a step that raises an error is the
\* last step of the call.
C8_Atomic ==
    /\ failed # "none" =>
          /\ Returned
          /\ result.kind = "Err"
          /\ trace[Len(trace)] = failed
    /\ Returned =>
          \/ /\ result.kind = "Ok"
             /\ failed = "none"
             /\ DOMAIN result = {"kind", "payload"}
             /\ DOMAIN result.payload = {"content", "public_key", "salt"}
             /\ Len(result.payload.content) = 3818
             /\ Len(result.payload.public_key) = 65
             /\ Len(result.payload.salt) = 16
             /\ trace = AllSteps
          \/ /\ result.kind = "Err"
             /\ failed # "none"
             /\ DOMAIN result = {"kind", "error"}
             /\ result.error \in {"ContentTooLong", "NotImplemented", "Unspecified"}
             /\ Len(trace) < Len(AllSteps)
             /\ trace = SubSeq(AllSteps, 1, Len(trace))
    /\ Returned => payload = <<>> /\ shared_secret = <<>> /\ private_key = 0

C8_Witness ==
    /\ Returned /\ result.kind = "Err" /\ failed = "fill"
    /\ trace = <<"check_len", "generate", "fill">>

\* C9 (as claimed): in a successful call every step runs exactly once, in the
\* order validate, generate salt and key pair, agree, derive keys, frame,
\* seal, assemble.
C9_DeriveBeforeFrame ==
    Succeeded =>
        /\ \A i \in DOMAIN AllSteps : Once(AllSteps[i])
        /\ Pos("check_len") < Pos("generate") /\ Pos("check_len") < Pos("fill")
        /\ Pos("generate") < Pos("agree") /\ Pos("fill") < Pos("agree")
        /\ Pos("agree") < Pos("derive")
        /\ Pos("derive") < Pos("front_pad")
        /\ Pos("front_pad") < Pos("seal")
        /\ Pos("seal") < Pos("assemble")

\* C9 (amended): in a successful call every step runs exactly once, in the
\* order validate, generate key pair and salt, agree, frame, derive keys,
\* seal, assemble; sealing runs after both framing and key derivation.
C9_FrameBeforeDerive ==
    Succeeded =>
        /\ \A i \in DOMAIN AllSteps : Once(AllSteps[i])
        /\ Len(trace) = Len(AllSteps)
        /\ Pos("check_len") < Pos("generate") /\ Pos("check_len") < Pos("fill")
        /\ Pos("generate") < Pos("agree") /\ Pos("fill") < Pos("agree")
        /\ Pos("agree") < Pos("front_pad")
        /\ Pos("front_pad") < Pos("derive")
        /\ Pos("derive") < Pos("seal")
        /\ Pos("seal") < Pos("assemble")

C9_Witness == Succeeded /\ Ran("derive") /\ Ran("front_pad") /\ Ran("seal")

\* C10: when aes_gcm has derived its keys, the context is "P-256\0", the
\* 2-byte big-endian length of the recipient key, the recipient key, the
\* 2-byte big-endian length of the ephemeral key and the ephemeral key; ikm
\* (32 bytes) comes from (auth secret, shared secret, "Content-Encoding:
\* auth\0"), the key (16 bytes) and the nonce (12 bytes) from (salt, ikm) with
\* the infos "Content-Encoding: aesgcm\0" and "Content-Encoding: nonce\0",
\* each followed by that context.
C10_DerivationInputs ==
    pc \in {"sealing_key", "seal"} =>
        LET ctx == <<80, 45, 50, 53, 54, 0>>
                   \o <<Len(peer_public_key) \div 256, Len(peer_public_key) % 256>>
                   \o peer_public_key
                   \o <<Len(public_key) \div 256, Len(public_key) % 256>>
                   \o public_key
        IN  /\ context = ctx
            /\ Len(hkdf_calls) = 3
            /\ hkdf_calls[1] =
                 [salt |-> peer_secret, secret |-> shared_secret,
                  info |-> <<67, 111, 110, 116, 101, 110, 116, 45, 69, 110, 99,
                             111, 100, 105, 110, 103, 58, 32, 97, 117, 116, 104, 0>>,
                  len |-> 32]
            /\ hkdf_calls[2] =
                 [salt |-> salt_bytes, secret |-> ikm,
                  info |-> <<67, 111, 110, 116, 101, 110, 116, 45, 69, 110, 99,
                             111, 100, 105, 110, 103, 58, 32, 97, 101, 115, 103,
                             99, 109, 0>> \o ctx,
                  len |-> 16]
            /\ hkdf_calls[3] =
                 [salt |-> salt_bytes, secret |-> ikm,
                  info |-> <<67, 111, 110, 116, 101, 110, 116, 45, 69, 110, 99,
                             111, 100, 105, 110, 103, 58, 32, 110, 111, 110, 99,
                             101, 0>> \o ctx,
                  len |-> 12]
            /\ Len(ikm) = 32 /\ Len(content_encryption_key) = 16 /\ Len(nonce) = 12
            /\ Len(salt_bytes) = 16 /\ Len(public_key) = 65

C10_Witness ==
    /\ pc = "sealing_key" /\ Len(hkdf_calls) = 3
    /\ peer_public_key # public_key

====
